---- MODULE Spec2Model ----
(***************************************************************************)
(* Movie / actor REST API (Express, in-memory).                            *)
(*                                                                         *)
(* Two builds of the server are modelled:                                  *)
(*   "app"     : src/app.js            (validating, relationship-aware)    *)
(*   "partial" : src/unnamed/part_000  (pre-seeded, partial movie update)  *)
(*                                                                         *)
(* The two module-level arrays `actors` and `movies` hold JavaScript       *)
(* objects.  `movie.actor = actor` stores a reference, so actor objects    *)
(* live in a heap and both arrays hold references into it.                 *)
(***************************************************************************)
EXTENDS Integers, Sequences, FiniteSets, TLC

VARIABLES
    variant,    \* which build is running: "app" or "partial"
    now,        \* the wall clock read by `new Date()`
    heap,       \* actor objects by reference
    actors,     \* the `actors` array: a sequence of references
    movies,     \* the `movies` array: records whose `actor` is a reference
    req,        \* the route of the last request
    res         \* the response to the last request: [status, body]

vars == <<variant, now, heap, actors, movies, req, res>>

---------------------------------------------------------------------------
(* Bounds of the model.                                                    *)

MaxActors == 2
MaxMovies == 2
MaxClock == 2

---------------------------------------------------------------------------
(* JavaScript values that reach the handlers through JSON bodies and       *)
(* route parameters.  A string is its sequence of characters.              *)

Undefined == [type |-> "undefined", chars |-> <<>>, num |-> 0]
Str(cs) == [type |-> "string", chars |-> cs, num |-> 0]
Num(n) == [type |-> "number", chars |-> <<>>, num |-> n]

\* ToBoolean, as applied by `!x` and `x || y`.
Truthy(v) ==
    CASE v.type = "undefined" -> FALSE
      [] v.type = "string" -> Len(v.chars) > 0
      [] v.type = "number" -> v.num # 0

\* `a || b`
Or(a, b) == IF Truthy(a) THEN a ELSE b

IsSpace(c) == c = " "

RECURSIVE TrimStart(_)
TrimStart(cs) ==
    IF cs # <<>> /\ IsSpace(Head(cs)) THEN TrimStart(Tail(cs)) ELSE cs

RECURSIVE TrimEnd(_)
TrimEnd(cs) ==
    IF cs # <<>> /\ IsSpace(cs[Len(cs)])
    THEN TrimEnd(SubSeq(cs, 1, Len(cs) - 1))
    ELSE cs

\* String.prototype.trim
Trim(cs) == TrimEnd(TrimStart(cs))

\* `x.trim()` exists on strings only; on any other truthy value the call
\* throws a TypeError.
HasTrim(v) == v.type = "string"

Digits == <<"0", "1", "2", "3", "4", "5", "6", "7", "8", "9">>

IsDigit(c) == \E d \in 1..Len(Digits) : Digits[d] = c

DigitVal(c) == (CHOOSE d \in 1..Len(Digits) : Digits[d] = c) - 1

\* The longest prefix of decimal digits.
RECURSIVE DigitPrefix(_)
DigitPrefix(cs) ==
    IF cs # <<>> /\ IsDigit(Head(cs))
    THEN <<Head(cs)>> \o DigitPrefix(Tail(cs))
    ELSE <<>>

RECURSIVE Decimal(_)
Decimal(ds) ==
    IF ds = <<>> THEN 0
    ELSE 10 * Decimal(SubSeq(ds, 1, Len(ds) - 1)) + DigitVal(ds[Len(ds)])

NaN == [nan |-> TRUE, val |-> 0]
Number(n) == [nan |-> FALSE, val |-> n]

\* parseInt(v): leading white space is skipped, the longest digit prefix is
\* read, NaN when there is none.  A number is first converted to its
\* decimal string, which for the non-negative integers used here reads
\* back as itself.
ParseInt(v) ==
    CASE v.type = "number" -> Number(v.num)
      [] v.type = "string" ->
            LET ds == DigitPrefix(TrimStart(v.chars))
            IN  IF ds = <<>> THEN NaN ELSE Number(Decimal(ds))
      [] OTHER -> NaN

\* `x === parseInt(v)` for a number x: never true of NaN.
StrictEqInt(x, p) == ~p.nan /\ x = p.val

\* new Date(v).  Time is counted in abstract units: a date string made of
\* decimal digits denotes the instant of that number, any other string is
\* an Invalid Date (time value NaN), a number is a time value itself and
\* undefined gives an Invalid Date.
NewDate(v) ==
    CASE v.type = "number" -> Number(v.num)
      [] v.type = "string" ->
            IF v.chars # <<>> /\ \A i \in 1..Len(v.chars) : IsDigit(v.chars[i])
            THEN Number(Decimal(v.chars))
            ELSE NaN
      [] OTHER -> NaN

\* Faulty variant: a date equal to the clock's reading counts as future.
isFutureOrNowAt(date, t) ==
    LET d == NewDate(date) IN ~d.nan /\ d.val >= t

\* Faulty variant: the comparison turned round.
isPastDateAt(date, t) ==
    LET d == NewDate(date) IN ~d.nan /\ d.val < t

\* isFutureDate, with the clock reading t: `new Date(date) > new Date()`.
\* Every comparison with NaN is false.
isFutureDateAt(date, t) ==
    LET d == NewDate(date) IN ~d.nan /\ d.val > t

isFutureDate(date) == isFutureDateAt(date, now)

---------------------------------------------------------------------------
(* The heap of actor objects.                                              *)

Refs == 1..(MaxActors + MaxMovies + 1)

NoRef == 0

NoObj == [id |-> 0, firstName |-> Undefined, lastName |-> Undefined,
          dateOfBirth |-> Undefined]

Range(s) == {s[i] : i \in 1..Len(s)}

\* The references held by movies and by no element of `as`, in order of
\* first occurrence.
RECURSIVE Detached(_, _)
Detached(as, ms) ==
    IF ms = <<>> THEN <<>>
    ELSE LET front == Detached(as, SubSeq(ms, 1, Len(ms) - 1))
             r == ms[Len(ms)].actor
         IN  IF r \in Range(as) \/ r \in Range(front)
             THEN front
             ELSE Append(front, r)

\* Garbage collection: objects reachable from neither array are dropped
\* and the live ones renumbered (the array's objects first, in array
\* order).  References are opaque to the program, so this changes nothing
\* it can observe.
Collect(h, as, ms) ==
    LET live == as \o Detached(as, ms)
        new(r) == CHOOSE k \in 1..Len(live) : live[k] = r
    IN  [heap |-> [r \in Refs |-> IF r <= Len(live) THEN h[live[r]] ELSE NoObj],
         actors |-> [i \in 1..Len(as) |-> new(as[i])],
         movies |-> [i \in 1..Len(ms) |-> [ms[i] EXCEPT !.actor = new(@)]]]

\* A reference no live object has.
FreshRef(as, ms) == Len(as \o Detached(as, ms)) + 1

\* What a handler leaves behind: its response and the arrays.
\* A handler that returns early leaves the arrays as they were.
Reply(status, body) ==
    [status |-> status, body |-> body,
     heap |-> heap, actors |-> actors, movies |-> movies]

\* A handler that ran to its end with the arrays as given.
Done(status, body, h, as, ms) ==
    LET c == Collect(h, as, ms)
    IN  [status |-> status, body |-> body,
         heap |-> c.heap, actors |-> c.actors, movies |-> c.movies]

\* A handler that threw before touching the arrays: Express answers 500.
Thrown == Reply(500, "TypeError")

\* The server after a request to `route` that its handler answered with r.
Apply(route, r) ==
    /\ req' = route
    /\ res' = [status |-> r.status, body |-> r.body]
    /\ heap' = r.heap
    /\ actors' = r.actors
    /\ movies' = r.movies
    /\ UNCHANGED <<variant, now>>

---------------------------------------------------------------------------
(* Helpers shared by the handlers.                                         *)

\* Faulty variant: the last element with the id is returned.
findLastActorById(id) ==
    LET p == ParseInt(id)
        hits == {i \in 1..Len(actors) : StrictEqInt(heap[actors[i]].id, p)}
    IN  IF hits = {} THEN NoRef
        ELSE actors[CHOOSE i \in hits : \A j \in hits : j <= i]

\* findActorById: the first element of `actors` whose id is parseInt(id),
\* NoRef (undefined) when there is none.
findActorById(id) ==
    LET p == ParseInt(id)
        hits == {i \in 1..Len(actors) : StrictEqInt(heap[actors[i]].id, p)}
    IN  IF hits = {} THEN NoRef
        ELSE actors[CHOOSE i \in hits : \A j \in hits : i <= j]

\* actors.findIndex(actor => actor.id === actorId): 0 stands for -1.
ActorIndex(actorId) ==
    LET hits == {i \in 1..Len(actors) : StrictEqInt(heap[actors[i]].id, actorId)}
    IN  IF hits = {} THEN 0 ELSE CHOOSE i \in hits : \A j \in hits : i <= j

\* Faulty variant: the id is taken for a position in the array.
MovieIndexByPosition(id) ==
    LET p == ParseInt(id)
    IN  IF ~p.nan /\ p.val \in 1..Len(movies) THEN p.val ELSE 0

\* movies.findIndex(movie => movie.id === parseInt(id)): 0 stands for -1.
\* movies.find returns the element at that index.
MovieIndex(id) ==
    LET p == ParseInt(id)
        hits == {i \in 1..Len(movies) : StrictEqInt(movies[i].id, p)}
    IN  IF hits = {} THEN 0 ELSE CHOOSE i \in hits : \A j \in hits : i <= j

\* array.splice(i, 1)
Splice(s, i) == SubSeq(s, 1, i - 1) \o SubSeq(s, i + 1, Len(s))

\* Faulty variant: one more than the largest id in use.
NextFreeActorId ==
    IF actors = <<>> THEN 1
    ELSE 1 + CHOOSE n \in {heap[actors[i]].id : i \in 1..Len(actors)} :
                 \A i \in 1..Len(actors) : heap[actors[i]].id <= n

\* id: actors.length + 1
NewActorId == Len(actors) + 1

\* id: movies.length + 1
NewMovieId == Len(movies) + 1

\* Faulty variant: the assignment check left out (as in the earlier build).
ActorNeverInMovie(actorId) == FALSE

\* Faulty variant: the movie's own id compared instead of its actor's.
ActorInMovieByMovieId(actorId) ==
    \E i \in 1..Len(movies) : StrictEqInt(movies[i].id, actorId)

\* Faulty variant: any stored movie counts as an assignment.
ActorInAnyMovie(actorId) == movies # <<>>

\* movies.some(movie => movie.actor.id === actorId)
ActorInMovie(actorId) ==
    \E i \in 1..Len(movies) : StrictEqInt(heap[movies[i].actor].id, actorId)

---------------------------------------------------------------------------
(* Actor routes of src/app.js.  Each handler is a function of the request  *)
(* and the current arrays; the action of the same route applies it.        *)

\* Faulty variant: the required fields are not tested.
PostActorsDateOnly(body) ==
    IF isFutureDate(body.dateOfBirth)
    THEN Reply(400, "Date of birth cannot be in the future.")
    ELSE LET r == FreshRef(actors, movies)
         IN  Done(201, "actor",
                  [heap EXCEPT ![r] = [id |-> NewActorId,
                                       firstName |-> body.firstName,
                                       lastName |-> body.lastName,
                                       dateOfBirth |-> body.dateOfBirth]],
                  Append(actors, r), movies)

\* app.post('/actors')
PostActorsHandler(body) ==
    IF ~Truthy(body.firstName) \/ ~Truthy(body.lastName)
       \/ ~Truthy(body.dateOfBirth)
    THEN Reply(400, "First name, last name, and date of birth are required.")
    ELSE IF isFutureDate(body.dateOfBirth)
    THEN Reply(400, "Date of birth cannot be in the future.")
    ELSE LET r == FreshRef(actors, movies)
             actor == [id |-> NewActorId,
                       firstName |-> body.firstName,
                       lastName |-> body.lastName,
                       dateOfBirth |-> body.dateOfBirth]
         IN  Done(201, "actor",
                  [heap EXCEPT ![r] = actor], Append(actors, r), movies)

PostActors(body) ==
    /\ variant = "app"
    /\ PostActorsHandler(body).status = 201 => Len(actors) < MaxActors
    /\ Apply("POST /actors", PostActorsHandler(body))

\* app.get('/actors')
GetActorsHandler == Reply(200, "actors")

GetActors == Apply("GET /actors", GetActorsHandler)

\* app.get('/actors/:id')
GetActorHandler(id) ==
    IF findActorById(id) = NoRef
    THEN Reply(404, "Actor not found")
    ELSE Reply(200, "actor")

GetActorById(id) == Apply("GET /actors/:id", GetActorHandler(id))

\* Faulty variant: the names are tested as POST /actors tests them, blank
\* ones passing.
PutActorNoTrim(id, body) ==
    LET actor == findActorById(id)
    IN  IF actor = NoRef
        THEN Reply(404, "Actor not found")
        ELSE IF ~Truthy(body.firstName)
        THEN Reply(400, "First name cannot be empty.")
        ELSE IF ~Truthy(body.lastName)
        THEN Reply(400, "Last name cannot be empty.")
        ELSE IF ~Truthy(body.dateOfBirth)
        THEN Reply(400, "Date of birth cannot be empty.")
        ELSE IF isFutureDate(body.dateOfBirth)
        THEN Reply(400, "Date of birth cannot be in the future.")
        ELSE Done(200, "actor",
                  [heap EXCEPT ![actor] =
                     [id |-> @.id,
                      firstName |-> body.firstName,
                      lastName |-> body.lastName,
                      dateOfBirth |-> body.dateOfBirth]],
                  actors, movies)

\* app.put('/actors/:id')
PutActorHandler(id, body) ==
    LET actor == findActorById(id)
        firstName == body.firstName
        lastName == body.lastName
        dateOfBirth == body.dateOfBirth
    IN  IF actor = NoRef
        THEN Reply(404, "Actor not found")
        ELSE IF ~Truthy(firstName)
        THEN Reply(400, "First name cannot be empty.")
        ELSE IF ~HasTrim(firstName)
        THEN Thrown
        ELSE IF ~Truthy(Str(Trim(firstName.chars)))
        THEN Reply(400, "First name cannot be empty.")
        ELSE IF ~Truthy(lastName)
        THEN Reply(400, "Last name cannot be empty.")
        ELSE IF ~HasTrim(lastName)
        THEN Thrown
        ELSE IF ~Truthy(Str(Trim(lastName.chars)))
        THEN Reply(400, "Last name cannot be empty.")
        ELSE IF ~Truthy(dateOfBirth)
        THEN Reply(400, "Date of birth cannot be empty.")
        ELSE IF isFutureDate(dateOfBirth)
        THEN Reply(400, "Date of birth cannot be in the future.")
        ELSE Done(200, "actor",
                  [heap EXCEPT ![actor] =
                     [id |-> @.id,
                      firstName |-> Or(firstName, @.firstName),
                      lastName |-> Or(lastName, @.lastName),
                      dateOfBirth |-> Or(dateOfBirth, @.dateOfBirth)]],
                  actors, movies)

PutActor(id, body) ==
    /\ variant = "app"
    /\ Apply("PUT /actors/:id", PutActorHandler(id, body))

\* Faulty variant: no actor can be deleted while any movie is stored.
DeleteActorNoMovies(id) ==
    LET actorIndex == ActorIndex(ParseInt(id))
    IN  IF movies # <<>>
        THEN Reply(400, "Cannot delete actor because they are assigned to a movie.")
        ELSE IF actorIndex = 0
        THEN Reply(404, "Actor not found")
        ELSE Done(204, "", heap, Splice(actors, actorIndex), movies)

\* app.delete('/actors/:id')
DeleteActorHandler(id) ==
    LET actorId == ParseInt(id)
        actorIndex == ActorIndex(actorId)
    IN  IF ActorInMovie(actorId)
        THEN Reply(400, "Cannot delete actor because they are assigned to a movie.")
        ELSE IF actorIndex = 0
        THEN Reply(404, "Actor not found")
        ELSE Done(204, "", heap, Splice(actors, actorIndex), movies)

DeleteActor(id) ==
    /\ variant = "app"
    /\ Apply("DELETE /actors/:id", DeleteActorHandler(id))

---------------------------------------------------------------------------
(* Movie routes of src/app.js.                                             *)

\* Faulty variant: the movie is given a copy of the actor, not the actor.
PostMoviesSnapshot(body) ==
    LET actor == findActorById(body.actorId)
        copy == FreshRef(actors, movies)
    IN  IF ~Truthy(body.actorId)
        THEN Reply(400, "Actor ID must be supplied.")
        ELSE IF actor = NoRef
        THEN Reply(404, "Actor not found")
        ELSE IF ~Truthy(body.title)
        THEN Reply(400, "Title cannot be empty.")
        ELSE IF ~HasTrim(body.title)
        THEN Thrown
        ELSE IF ~Truthy(Str(Trim(body.title.chars)))
        THEN Reply(400, "Title cannot be empty.")
        ELSE IF ~Truthy(body.creationDate)
        THEN Reply(400, "Creation date cannot be empty.")
        ELSE Done(201, "movie", [heap EXCEPT ![copy] = heap[actor]], actors,
                  Append(movies, [id |-> NewMovieId,
                                  title |-> body.title,
                                  creationDate |-> body.creationDate,
                                  actor |-> copy]))

\* Faulty variant: the actor is looked up before actorId is tested.
PostMoviesLookupFirst(body) ==
    LET actor == findActorById(body.actorId)
    IN  IF actor = NoRef
        THEN Reply(404, "Actor not found")
        ELSE IF ~Truthy(body.title) \/ ~HasTrim(body.title)
                \/ ~Truthy(Str(Trim(body.title.chars)))
        THEN Reply(400, "Title cannot be empty.")
        ELSE IF ~Truthy(body.creationDate)
        THEN Reply(400, "Creation date cannot be empty.")
        ELSE Done(201, "movie", heap, actors,
                  Append(movies, [id |-> NewMovieId,
                                  title |-> body.title,
                                  creationDate |-> body.creationDate,
                                  actor |-> actor]))

\* Faulty variant: title and creation date are validated before the actor is
\* looked up.
PostMoviesValidateFirst(body) ==
    LET actor == findActorById(body.actorId)
    IN  IF ~Truthy(body.actorId)
        THEN Reply(400, "Actor ID must be supplied.")
        ELSE IF ~Truthy(body.title) \/ ~HasTrim(body.title)
                \/ ~Truthy(Str(Trim(body.title.chars)))
        THEN Reply(400, "Title cannot be empty.")
        ELSE IF ~Truthy(body.creationDate)
        THEN Reply(400, "Creation date cannot be empty.")
        ELSE IF actor = NoRef
        THEN Reply(404, "Actor not found")
        ELSE Done(201, "movie", heap, actors,
                  Append(movies, [id |-> NewMovieId,
                                  title |-> body.title,
                                  creationDate |-> body.creationDate,
                                  actor |-> actor]))

\* Faulty variant: the new movie is put at the front (unshift for push).
PostMoviesUnshift(body) ==
    LET actor == findActorById(body.actorId)
    IN  IF ~Truthy(body.actorId)
        THEN Reply(400, "Actor ID must be supplied.")
        ELSE IF actor = NoRef
        THEN Reply(404, "Actor not found")
        ELSE IF ~Truthy(body.title)
        THEN Reply(400, "Title cannot be empty.")
        ELSE IF ~HasTrim(body.title)
        THEN Thrown
        ELSE IF ~Truthy(Str(Trim(body.title.chars)))
        THEN Reply(400, "Title cannot be empty.")
        ELSE IF ~Truthy(body.creationDate)
        THEN Reply(400, "Creation date cannot be empty.")
        ELSE Done(201, "movie", heap, actors,
                  <<[id |-> NewMovieId,
                     title |-> body.title,
                     creationDate |-> body.creationDate,
                     actor |-> actor]>> \o movies)

\* app.post('/movies')
PostMoviesHandler(body) ==
    LET title == body.title
        creationDate == body.creationDate
        actorId == body.actorId
        actor == findActorById(actorId)
    IN  IF ~Truthy(actorId)
        THEN Reply(400, "Actor ID must be supplied.")
        ELSE IF actor = NoRef
        THEN Reply(404, "Actor not found")
        ELSE IF ~Truthy(title)
        THEN Reply(400, "Title cannot be empty.")
        ELSE IF ~HasTrim(title)
        THEN Thrown
        ELSE IF ~Truthy(Str(Trim(title.chars)))
        THEN Reply(400, "Title cannot be empty.")
        ELSE IF ~Truthy(creationDate)
        THEN Reply(400, "Creation date cannot be empty.")
        ELSE LET movie == [id |-> NewMovieId,
                           title |-> title,
                           creationDate |-> creationDate,
                           actor |-> actor]
             IN  Done(201, "movie", heap, actors, Append(movies, movie))

PostMovies(body) ==
    /\ variant = "app"
    /\ PostMoviesHandler(body).status = 201 => Len(movies) < MaxMovies
    /\ Apply("POST /movies", PostMoviesHandler(body))

\* app.get('/movies')
GetMoviesHandler == Reply(200, "movies")

GetMovies == Apply("GET /movies", GetMoviesHandler)

\* app.get('/movies/:id')
GetMovieHandler(id) ==
    IF MovieIndex(id) = 0
    THEN Reply(404, "Movie not found")
    ELSE Reply(200, "movie")

GetMovieById(id) == Apply("GET /movies/:id", GetMovieHandler(id))

\* Faulty variant: the movie keeps the actor it had.
PutMovieKeepActor(id, body) ==
    LET movie == MovieIndex(id)
    IN  IF movie = 0
        THEN Reply(404, "Movie not found")
        ELSE IF ~Truthy(body.title) \/ ~Truthy(body.creationDate)
                \/ ~Truthy(body.actorId)
        THEN Reply(400, "Title, creation date, and actor ID must be provided.")
        ELSE IF findActorById(body.actorId) = NoRef
        THEN Reply(404, "Actor not found")
        ELSE Done(200, "movie", heap, actors,
                  [movies EXCEPT ![movie] =
                     [id |-> @.id,
                      title |-> body.title,
                      creationDate |-> body.creationDate,
                      actor |-> @.actor]])

\* Faulty variant: title and creation date are assigned before the actor is
\* looked up.
PutMovieAssignFirst(id, body) ==
    LET movie == MovieIndex(id)
        actor == findActorById(body.actorId)
        assigned == [movies EXCEPT ![movie] =
                       [id |-> @.id,
                        title |-> body.title,
                        creationDate |-> body.creationDate,
                        actor |-> @.actor]]
    IN  IF movie = 0
        THEN Reply(404, "Movie not found")
        ELSE IF ~Truthy(body.title) \/ ~Truthy(body.creationDate)
                \/ ~Truthy(body.actorId)
        THEN Reply(400, "Title, creation date, and actor ID must be provided.")
        ELSE IF actor = NoRef
        THEN Done(404, "Actor not found", heap, actors, assigned)
        ELSE Done(200, "movie", heap, actors,
                  [assigned EXCEPT ![movie].actor = actor])

\* Faulty variant: the actor is looked up before the fields are tested.
PutMovieLookupFirst(id, body) ==
    LET movie == MovieIndex(id)
        actor == findActorById(body.actorId)
    IN  IF movie = 0
        THEN Reply(404, "Movie not found")
        ELSE IF actor = NoRef
        THEN Reply(404, "Actor not found")
        ELSE IF ~Truthy(body.title) \/ ~Truthy(body.creationDate)
        THEN Reply(400, "Title, creation date, and actor ID must be provided.")
        ELSE Done(200, "movie", heap, actors,
                  [movies EXCEPT ![movie] =
                     [id |-> @.id,
                      title |-> body.title,
                      creationDate |-> body.creationDate,
                      actor |-> actor]])

\* app.put('/movies/:id')
PutMovieHandler(id, body) ==
    LET movie == MovieIndex(id)
        title == body.title
        creationDate == body.creationDate
        actorId == body.actorId
        actor == findActorById(actorId)
    IN  IF movie = 0
        THEN Reply(404, "Movie not found")
        ELSE IF ~Truthy(title) \/ ~Truthy(creationDate) \/ ~Truthy(actorId)
        THEN Reply(400, "Title, creation date, and actor ID must be provided.")
        ELSE IF actor = NoRef
        THEN Reply(404, "Actor not found")
        ELSE Done(200, "movie", heap, actors,
                  [movies EXCEPT ![movie] =
                     [id |-> @.id,
                      title |-> title,
                      creationDate |-> creationDate,
                      actor |-> actor]])

PutMovie(id, body) ==
    /\ variant = "app"
    /\ Apply("PUT /movies/:id", PutMovieHandler(id, body))

\* app.delete('/movies/:id')
DeleteMovieHandler(id) ==
    LET movieIndex == MovieIndex(id)
    IN  IF movieIndex = 0
        THEN Reply(404, "Movie not found")
        ELSE Done(204, "", heap, actors, Splice(movies, movieIndex))

DeleteMovie(id) == Apply("DELETE /movies/:id", DeleteMovieHandler(id))

---------------------------------------------------------------------------
(* Routes of src/unnamed/part_000 that differ from src/app.js.  The GET    *)
(* routes and DELETE /movies/:id are the same code in both builds.         *)

\* app.post('/actors')
PartialPostActorsHandler(body) ==
    IF isFutureDate(body.dateOfBirth)
    THEN Reply(400, "Date of birth cannot be in the future.")
    ELSE LET r == FreshRef(actors, movies)
             actor == [id |-> NewActorId,
                       firstName |-> body.firstName,
                       lastName |-> body.lastName,
                       dateOfBirth |-> body.dateOfBirth]
         IN  Done(201, "actor",
                  [heap EXCEPT ![r] = actor], Append(actors, r), movies)

PartialPostActors(body) ==
    /\ variant = "partial"
    /\ PartialPostActorsHandler(body).status = 201 => Len(actors) < MaxActors
    /\ Apply("POST /actors", PartialPostActorsHandler(body))

\* app.put('/actors/:id')
PartialPutActorHandler(id, body) ==
    LET actor == findActorById(id)
    IN  IF actor = NoRef
        THEN Reply(404, "Actor not found")
        ELSE IF isFutureDate(body.dateOfBirth)
        THEN Reply(400, "Date of birth cannot be in the future.")
        ELSE Done(200, "actor",
                  [heap EXCEPT ![actor] =
                     [id |-> @.id,
                      firstName |-> Or(body.firstName, @.firstName),
                      lastName |-> Or(body.lastName, @.lastName),
                      dateOfBirth |-> Or(body.dateOfBirth, @.dateOfBirth)]],
                  actors, movies)

PartialPutActor(id, body) ==
    /\ variant = "partial"
    /\ Apply("PUT /actors/:id", PartialPutActorHandler(id, body))

\* app.delete('/actors/:id')
PartialDeleteActorHandler(id) ==
    LET actorIndex == ActorIndex(ParseInt(id))
    IN  IF actorIndex = 0
        THEN Reply(404, "Actor not found")
        ELSE Done(204, "", heap, Splice(actors, actorIndex), movies)

PartialDeleteActor(id) ==
    /\ variant = "partial"
    /\ Apply("DELETE /actors/:id", PartialDeleteActorHandler(id))

\* app.post('/movies')
PartialPostMoviesHandler(body) ==
    LET actorId == body.actorId
        actor == findActorById(actorId)
    IN  IF ~Truthy(actorId)
        THEN Reply(400, "Actor ID must be supplied.")
        ELSE IF actor = NoRef
        THEN Reply(404, "Actor not found")
        ELSE LET movie == [id |-> NewMovieId,
                           title |-> body.title,
                           creationDate |-> body.creationDate,
                           actor |-> actor]
             IN  Done(201, "movie", heap, actors, Append(movies, movie))

PartialPostMovies(body) ==
    /\ variant = "partial"
    /\ PartialPostMoviesHandler(body).status = 201 => Len(movies) < MaxMovies
    /\ Apply("POST /movies", PartialPostMoviesHandler(body))

\* Faulty variant: title and creationDate are assigned as supplied, omitted
\* ones included.
PartialPutMovieOverwrite(id, body) ==
    LET movie == MovieIndex(id)
        actor == findActorById(body.actorId)
    IN  IF movie = 0
        THEN Reply(404, "Movie not found")
        ELSE IF Truthy(body.actorId) /\ actor = NoRef
        THEN Reply(404, "Actor not found")
        ELSE Done(200, "movie", heap, actors,
                  [movies EXCEPT ![movie] =
                     [id |-> @.id,
                      title |-> body.title,
                      creationDate |-> body.creationDate,
                      actor |-> IF Truthy(body.actorId) THEN actor
                                ELSE @.actor]])

\* Faulty variant: title and creationDate are assigned before the actor is
\* looked up.
PartialPutMovieAssignFirst(id, body) ==
    LET movie == MovieIndex(id)
        actor == findActorById(body.actorId)
        assigned == [movies EXCEPT ![movie] =
                       [id |-> @.id,
                        title |-> Or(body.title, @.title),
                        creationDate |-> Or(body.creationDate, @.creationDate),
                        actor |-> @.actor]]
    IN  IF movie = 0
        THEN Reply(404, "Movie not found")
        ELSE IF Truthy(body.actorId) /\ actor = NoRef
        THEN Done(404, "Actor not found", heap, actors, assigned)
        ELSE Done(200, "movie", heap, actors,
                  IF Truthy(body.actorId)
                  THEN [assigned EXCEPT ![movie].actor = actor]
                  ELSE assigned)

\* app.put('/movies/:id')
PartialPutMovieHandler(id, body) ==
    LET movie == MovieIndex(id)
        actorId == body.actorId
        actor == findActorById(actorId)
    IN  IF movie = 0
        THEN Reply(404, "Movie not found")
        ELSE IF Truthy(actorId) /\ actor = NoRef
        THEN Reply(404, "Actor not found")
        ELSE Done(200, "movie", heap, actors,
                  [movies EXCEPT ![movie] =
                     [id |-> @.id,
                      title |-> Or(body.title, @.title),
                      creationDate |-> Or(body.creationDate, @.creationDate),
                      actor |-> IF Truthy(actorId) THEN actor ELSE @.actor]])

PartialPutMovie(id, body) ==
    /\ variant = "partial"
    /\ Apply("PUT /movies/:id", PartialPutMovieHandler(id, body))

\* The clock advances between requests.
Tick ==
    /\ now < MaxClock
    /\ now' = now + 1
    /\ UNCHANGED <<variant, heap, actors, movies, req, res>>

---------------------------------------------------------------------------
(* Requests.                                                               *)

Numeral(n) == Str(<<Digits[n + 1]>>)

\* Route parameters are always strings: every id a record can have and one
\* that none has.
ParamIds == {Numeral(n) : n \in 1..(MaxActors + 1)}

FirstNames == {Undefined, Str(<<"T">>), Str(<<"A">>)}
LastNames == {Str(<<>>), Str(<<"H">>)}
BirthDates == {Undefined} \cup {Numeral(t) : t \in 1..MaxClock}

ActorBodies ==
    [firstName : FirstNames, lastName : LastNames, dateOfBirth : BirthDates]

Titles == {Undefined, Str(<<"M">>)}
CreationDates == {Str(<<>>), Numeral(1)}
ActorIds == {Undefined} \cup {Num(n) : n \in 1..(MaxActors + 1)}

MovieBodies ==
    [title : Titles, creationDate : CreationDates, actorId : ActorIds]

NoResponse == [status |-> 0, body |-> ""]

\* src/app.js starts with both arrays empty.
Init ==
    /\ variant = "app"
    /\ now = 1
    /\ heap = [r \in Refs |-> NoObj]
    /\ actors = <<>>
    /\ movies = <<>>
    /\ req = ""
    /\ res = NoResponse

\* One request to src/app.js, with its route parameter and body drawn from
\* the given sets.
Request(ids, actorBodies, movieBodies) ==
    \/ \E body \in actorBodies : PostActors(body)
    \/ GetActors
    \/ \E id \in ids : GetActorById(id)
    \/ \E id \in ids, body \in actorBodies : PutActor(id, body)
    \/ \E id \in ids : DeleteActor(id)
    \/ \E body \in movieBodies : PostMovies(body)
    \/ GetMovies
    \/ \E id \in ids : GetMovieById(id)
    \/ \E id \in ids, body \in movieBodies : PutMovie(id, body)
    \/ \E id \in ids : DeleteMovie(id)

Next ==
    \/ Request(ParamIds, ActorBodies, MovieBodies)
    \/ Tick

Spec == Init /\ [][Next]_vars

---------------------------------------------------------------------------
(* Both builds.                                                            *)

\* The seed records of src/unnamed/part_000.  Their dates lie before any
\* reading of the clock and are written as the instant 0.  The movie's
\* actor is an object literal of its own, not the element of `actors`.
Leo == [id |-> 1,
        firstName |-> Str(<<"L", "e", "o">>),
        lastName |-> Str(<<"D", "i", "c", "a", "p", "r", "i", "o">>),
        dateOfBirth |-> Numeral(0)]

Inception == [id |-> 1,
              title |-> Str(<<"I", "n", "c", "e", "p", "t", "i", "o", "n">>),
              creationDate |-> Numeral(0),
              actor |-> 2]

InitPartial ==
    /\ variant = "partial"
    /\ now = 1
    /\ heap = [r \in Refs |-> IF r \in {1, 2} THEN Leo ELSE NoObj]
    /\ actors = <<1>>
    /\ movies = <<Inception>>
    /\ req = ""
    /\ res = NoResponse

\* A date of birth that is in the future until the clock reaches it.
PartialActorBodies ==
    [firstName : {Str(<<"T">>)}, lastName : {Str(<<"H">>)},
     dateOfBirth : {Numeral(MaxClock)}]

\* Title and creation date both given or both omitted.
PartialMovieBodies ==
    {[title |-> f[1], creationDate |-> f[2], actorId |-> a] :
        f \in {<<Str(<<"M">>), Numeral(1)>>, <<Undefined, Undefined>>},
        a \in ActorIds}

\* One request to src/unnamed/part_000.
PartialRequest(ids, actorBodies, movieBodies) ==
    \/ \E body \in actorBodies : PartialPostActors(body)
    \/ \E id \in ids, body \in actorBodies : PartialPutActor(id, body)
    \/ \E id \in ids : PartialDeleteActor(id)
    \/ \E body \in movieBodies : PartialPostMovies(body)
    \/ \E id \in ids, body \in movieBodies : PartialPutMovie(id, body)
    \/ variant = "partial" /\ GetActors
    \/ variant = "partial" /\ GetMovies
    \/ \E id \in ids : variant = "partial" /\ GetActorById(id)
    \/ \E id \in ids : variant = "partial" /\ GetMovieById(id)
    \/ \E id \in ids : variant = "partial" /\ DeleteMovie(id)

InitBoth == Init \/ InitPartial

NextBoth ==
    \/ variant = "app" /\ Request(ParamIds, ActorBodies, MovieBodies)
    \/ PartialRequest(ParamIds, PartialActorBodies, PartialMovieBodies)
    \/ Tick

SpecBoth == InitBoth /\ [][NextBoth]_vars

---------------------------------------------------------------------------
(* src/app.js with bodies that hold blank strings and a string that is no  *)
(* date.                                                                   *)

LooseActorBodies ==
    [firstName : {Str(<<"T">>), Str(<<" ">>)}, lastName : {Str(<<"H">>)},
     dateOfBirth : {Numeral(1), Str(<<"x">>)}]

LooseMovieBodies ==
    [title : {Str(<<"M">>), Str(<<" ">>)}, creationDate : {Numeral(1)},
     actorId : {Num(n) : n \in 1..MaxActors}]

NextLoose ==
    \/ Request(ParamIds, LooseActorBodies, LooseMovieBodies)
    \/ Tick

SpecLoose == Init /\ [][NextLoose]_vars

---------------------------------------------------------------------------
(* src/app.js when only POST /actors and DELETE /actors/:id are requested. *)

NextActorsOnly ==
    \/ \E body \in ActorBodies : PostActors(body)
    \/ \E id \in ParamIds : DeleteActor(id)
    \/ Tick

SpecActorsOnly == Init /\ [][NextActorsOnly]_vars

---------------------------------------------------------------------------
(* Properties.                                                             *)

\* Values a JSON body may give a field: absent, empty, blank, a string,
\* zero, a non-zero number.
AnyValue ==
    {Undefined, Str(<<>>), Str(<<" ">>), Str(<<"M">>), Num(0), Num(7)}

\* Values a JSON body may give actorId, absent excepted.
AnyActorId ==
    {Num(n) : n \in 0..(MaxActors + 1)} \cup {Str(<<>>), Str(<<"x">>), Numeral(1)}

\* Some stored actor has the id that v reads as.
ActorStored(v) ==
    \E i \in 1..Len(actors) : StrictEqInt(heap[actors[i]].id, ParseInt(v))

\* Some stored movie holds an actor with id n.
MovieWithActor(n) == \E i \in 1..Len(movies) : heap[movies[i].actor].id = n

\* The actor a stored movie holds, as GET /movies and GET /movies/:id
\* return it.
EmbeddedActor(i) == heap[movies[i].actor]

ActorIdsStored == {heap[actors[i]].id : i \in 1..Len(actors)}

MaxActorId ==
    IF actors = <<>> THEN 0
    ELSE CHOOSE n \in ActorIdsStored : \A m \in ActorIdsStored : m <= n

\* The POST /movies handler of the running build.
PostMoviesOf(body) ==
    IF variant = "app" THEN PostMoviesHandler(body)
    ELSE PartialPostMoviesHandler(body)

C2_NewActorIdIsMaxPlusOne ==
    \A body \in ActorBodies :
        LET date == NewDate(body.dateOfBirth)
            r == PostActorsHandler(body)
        IN  (/\ Truthy(body.firstName)
             /\ Truthy(body.lastName)
             /\ Truthy(body.dateOfBirth)
             /\ ~date.nan
             /\ date.val <= now)
            => /\ r.status = 201
               /\ r.heap[r.actors[Len(r.actors)]].id = MaxActorId + 1

\* C3: no two stored movies hold an actor with the same id.
C3_ActorInAtMostOneMovie ==
    \A i, j \in 1..Len(movies) :
        i # j => EmbeddedActor(i).id # EmbeddedActor(j).id

\* C4: every stored movie's actor id is the id of a stored actor.
C4_ReferentialIntegrity ==
    \A i \in 1..Len(movies) : EmbeddedActor(i).id \in ActorIdsStored

\* An actor has been deleted while movies are stored.
C4_Witness ==
    /\ req = "DELETE /actors/:id"
    /\ res.status = 204
    /\ movies # <<>>

\* C5: DELETE /actors/:id for an id some movie's actor has answers 400
\* with the message and changes nothing.
C5_AssignedActorNotDeleted ==
    \A n \in 1..(MaxActors + 1) :
        MovieWithActor(n)
        => LET r == DeleteActorHandler(Numeral(n))
           IN  /\ r.status = 400
               /\ r.body = "Cannot delete actor because they are assigned to a movie."
               /\ r.heap = heap
               /\ r.actors = actors
               /\ r.movies = movies

\* A delete has been refused for an assigned actor.
C5_Witness ==
    /\ req = "DELETE /actors/:id"
    /\ res.status = 400
    /\ \E n \in 1..(MaxActors + 1) : MovieWithActor(n)

\* C6: after DELETE /actors/:id answered 204 for a stored actor no movie
\* refers to, GET /actors/:id for the same id answers 404.
C6_DeletedActorNotFound ==
    [][(req' = "DELETE /actors/:id" /\ res'.status = 204)
        => \A id \in ParamIds :
             (ActorStored(id) /\ ~MovieWithActor(ParseInt(id).val)
                /\ DeleteActor(id))
             => GetActorHandler(id)'.status = 404]_vars

\* C7: after DELETE /movies/:id answered 204, GET /movies/:id for the same
\* id answers 404.
C7_DeletedMovieNotFound ==
    [][(req' = "DELETE /movies/:id" /\ res'.status = 204)
        => \A id \in ParamIds :
             DeleteMovie(id) => GetMovieHandler(id)'.status = 404]_vars

\* C8: stored movies have pairwise distinct ids.
C8_MovieIdsDistinct ==
    \A i, j \in 1..Len(movies) : i # j => movies[i].id # movies[j].id

\* C9: in both builds POST /movies without actorId answers 400 and leaves
\* the movies as they are, whatever title and creationDate are.
C9_NoActorIdIs400 ==
    \A t \in AnyValue, c \in AnyValue :
        LET r == PostMoviesOf([title |-> t, creationDate |-> c,
                               actorId |-> Undefined])
        IN  r.status = 400 /\ r.movies = movies

\* A movie was posted without actorId while movies are stored.
C9_Witness ==
    /\ req = "POST /movies"
    /\ res = [status |-> 400, body |-> "Actor ID must be supplied."]
    /\ movies # <<>>

\* C10 as stated: in both builds POST /movies with an actorId no stored
\* actor has answers 404 and leaves the movies as they are, whatever title
\* and creationDate are.
C10_UnmatchedActorIdIs404 ==
    \A a \in AnyActorId, t \in AnyValue, c \in AnyValue :
        ~ActorStored(a)
        => LET r == PostMoviesOf([title |-> t, creationDate |-> c,
                                  actorId |-> a])
           IN  r.status = 404 /\ r.movies = movies

\* C10 amended: the same for an actorId that is truthy (not 0, not the
\* empty string).
C10_TruthyUnmatchedActorIdIs404 ==
    \A a \in AnyActorId, t \in AnyValue, c \in AnyValue :
        (Truthy(a) /\ ~ActorStored(a))
        => LET r == PostMoviesOf([title |-> t, creationDate |-> c,
                                  actorId |-> a])
           IN  r.status = 404 /\ r.movies = movies

\* A movie was posted for an actor that is not stored while others are.
C10_Witness ==
    /\ req = "POST /movies"
    /\ res = [status |-> 404, body |-> "Actor not found"]
    /\ actors # <<>>

\* Strings with something other than spaces in them.
NonBlank == {Str(<<"M">>), Str(<<" ", "M", " ">>)}

\* Values that are neither absent, nor the empty string, nor zero.
NonEmpty == AnyValue \ {Undefined, Str(<<>>), Num(0)}

\* The stored actor an actorId resolves to: the first one in `actors` whose
\* id is the number v reads as.
ResolvedActor(v) ==
    LET i == CHOOSE k \in 1..Len(actors) :
                 /\ StrictEqInt(heap[actors[k]].id, ParseInt(v))
                 /\ \A j \in 1..(k - 1) :
                      ~StrictEqInt(heap[actors[j]].id, ParseInt(v))
    IN  heap[actors[i]]

\* C11: POST /movies with a non-blank title, a non-empty creationDate and
\* an actorId that matches a stored actor answers 201, appends exactly one
\* movie at the end of `movies`, and the actor of that movie has the id,
\* firstName, lastName and dateOfBirth of the resolved actor.
C11_ValidMovieIsAppended ==
    \A a \in AnyActorId :
        ActorStored(a)
        => \A t \in NonBlank, c \in NonEmpty :
           \A r \in {PostMoviesHandler([title |-> t, creationDate |-> c,
                                         actorId |-> a])} :
           LET n == Len(movies) + 1
           IN  /\ r.status = 201
               /\ Len(r.movies) = n
               /\ SubSeq(r.movies, 1, Len(movies)) = movies
               /\ r.movies[n].title = t
               /\ r.movies[n].creationDate = c
               /\ r.heap[r.movies[n].actor] = ResolvedActor(a)
               /\ r.actors = actors
               /\ \A i \in 1..Len(actors) : r.heap[actors[i]] = heap[actors[i]]

\* A second movie has been created.
C11_Witness ==
    /\ req = "POST /movies"
    /\ res.status = 201
    /\ Len(movies) = 2

\* Some stored movie has the id that v reads as.
MovieStored(v) ==
    \E i \in 1..Len(movies) : StrictEqInt(movies[i].id, ParseInt(v))

\* C12: a successful PUT /movies/:id gives the movie the resolved actor B
\* (B's id and fields as they are then) and the supplied title and
\* creationDate, and changes no other movie and no actor.
C12_PutMovieReplacesActor ==
    \A id \in {p \in ParamIds : MovieStored(p)},
       a \in {v \in AnyActorId : ActorStored(v)} :
        \A t \in AnyValue, c \in AnyValue :
        \A r \in {PutMovieHandler(id, [title |-> t, creationDate |-> c,
                                        actorId |-> a])} :
        LET m == MovieIndex(id)
        IN  r.status = 200
            => /\ r.heap[r.movies[m].actor] = ResolvedActor(a)
               /\ r.movies[m].title = t
               /\ r.movies[m].creationDate = c
               /\ r.movies[m].id = movies[m].id
               /\ Len(r.movies) = Len(movies)
               /\ \A j \in 1..Len(movies) : j # m => r.movies[j] = movies[j]
               /\ r.actors = actors
               /\ r.heap = heap

\* A movie has been updated while another movie holds another actor.
C12_Witness ==
    /\ req = "PUT /movies/:id"
    /\ res.status = 200
    /\ Len(movies) = 2
    /\ movies[1].actor # movies[2].actor

\* The PUT /movies/:id handler of the running build.
PutMovieOf(id, body) ==
    IF variant = "app" THEN PutMovieHandler(id, body)
    ELSE PartialPutMovieHandler(id, body)

\* C13 as stated: in both builds PUT /movies/:id on a stored movie with an
\* actorId no stored actor has answers 404 and leaves the movie as it is,
\* whatever title and creationDate are.
C13_PutUnmatchedActorIdIs404 ==
    \A id \in {p \in ParamIds : MovieStored(p)},
       a \in {v \in AnyActorId : ~ActorStored(v)} :
        \A t \in AnyValue, c \in AnyValue :
           \A r \in {PutMovieOf(id, [title |-> t, creationDate |-> c,
                                      actorId |-> a])} :
               r.status = 404 /\ r.movies = movies /\ r.heap = heap

\* C13 amended: with a truthy actorId no stored actor has the movie is left
\* as it is; the answer is 404, except that src/app.js answers 400 when
\* title or creationDate is missing or empty.
C13_PutTruthyUnmatchedActorId ==
    \A id \in {p \in ParamIds : MovieStored(p)},
       a \in {v \in AnyActorId : Truthy(v) /\ ~ActorStored(v)} :
        \A t \in AnyValue, c \in AnyValue :
           \A r \in {PutMovieOf(id, [title |-> t, creationDate |-> c,
                                      actorId |-> a])} :
               /\ r.movies = movies
               /\ r.heap = heap
               /\ r.status = IF variant = "app" /\ (~Truthy(t) \/ ~Truthy(c))
                             THEN 400 ELSE 404

\* A movie update has been refused for an actor that is not stored.
C13_Witness ==
    /\ req = "PUT /movies/:id"
    /\ res = [status |-> 404, body |-> "Actor not found"]

\* A field that is missing or empty.
Missing == {Undefined, Str(<<>>)}

\* C14: PUT /movies/:id on a stored movie with title, creationDate or
\* actorId missing or empty answers 400 and leaves the movie as it is.
C14_PutMovieAllOrNothing ==
    \A id \in {p \in ParamIds : MovieStored(p)} :
        \A t \in AnyValue, c \in AnyValue, a \in AnyActorId \cup {Undefined} :
        (t \in Missing \/ c \in Missing \/ a \in Missing)
        => \A r \in {PutMovieHandler(id, [title |-> t, creationDate |-> c,
                                           actorId |-> a])} :
               /\ r.status = 400
               /\ r.movies = movies
               /\ r.heap = heap
               /\ r.actors = actors

\* A movie update with a missing field has been refused.
C14_Witness ==
    /\ req = "PUT /movies/:id"
    /\ res = [status |-> 400,
              body |-> "Title, creation date, and actor ID must be provided."]

\* The POST /actors handler of the running build.
PostActorsOf(body) ==
    IF variant = "app" THEN PostActorsHandler(body)
    ELSE PartialPostActorsHandler(body)

\* Dates of birth later than the clock's reading, as a date string and as a
\* time value.
FutureDates ==
    UNION {{Numeral(t), Num(t)} : t \in (now + 1)..(MaxClock + 1)}

\* C15: in both builds POST /actors with a dateOfBirth later than the
\* current time answers 400 and adds no actor, whatever firstName and
\* lastName are.
C15_FutureBirthIs400 ==
    \A d \in FutureDates, f \in AnyValue, l \in AnyValue :
        \A r \in {PostActorsOf([firstName |-> f, lastName |-> l,
                                dateOfBirth |-> d])} :
            /\ r.status = 400
            /\ r.actors = actors
            /\ r.heap = heap

\* The seeded build has refused an actor born in the future.
C15_Witness ==
    /\ variant = "partial"
    /\ req = "POST /actors"
    /\ res = [status |-> 400, body |-> "Date of birth cannot be in the future."]

\* C16: POST /actors with firstName, lastName or dateOfBirth missing or
\* empty answers 400 and leaves the actors as they are, so that the id the
\* next create is given (the length of `actors` plus one) is what it was.
C16_InvalidActorConsumesNoId ==
    \A f \in AnyValue, l \in AnyValue, d \in AnyValue :
        (f \in Missing \/ l \in Missing \/ d \in Missing)
        => \A r \in {PostActorsHandler([firstName |-> f, lastName |-> l,
                                        dateOfBirth |-> d])} :
               /\ r.status = 400
               /\ r.actors = actors
               /\ r.heap = heap
               /\ r.movies = movies
               /\ Len(r.actors) + 1 = NewActorId

\* A create has been refused for a missing field while actors are stored.
C16_Witness ==
    /\ req = "POST /actors"
    /\ res = [status |-> 400,
              body |-> "First name, last name, and date of birth are required."]
    /\ actors # <<>>

\* Names a body may give: absent, empty, only spaces, and strings with a
\* letter in them.
AnyName ==
    {Undefined, Str(<<>>), Str(<<" ", " ">>), Str(<<"T">>),
     Str(<<" ", "T", " ">>)}

\* Dates of birth a body may give: absent, empty, a string that is no
\* date, and the dates up to one unit past the clock's last reading.
AnyBirthDate ==
    {Undefined, Str(<<>>), Str(<<"x">>)}
        \cup {Numeral(t) : t \in 1..(MaxClock + 1)}

\* A name that is missing, empty or only spaces.
BlankName(v) ==
    v = Undefined \/ \A i \in 1..Len(v.chars) : v.chars[i] = " "

\* A date string later than the clock's reading.
FutureBirth(v) == \E t \in (now + 1)..(MaxClock + 1) : v = Numeral(t)

AnyParamId == ParamIds \cup {Numeral(0), Str(<<"x">>)}

\* Bodies of PUT /actors/:id, acceptable ones and ones with a field missing,
\* empty, blank, a number or in the future.
SomeActorBodies ==
    [firstName : AnyValue, lastName : {Str(<<>>), Str(<<"H">>)},
     dateOfBirth : {Undefined, Numeral(1), Numeral(MaxClock + 1)}]

\* Bodies of PUT /movies/:id, acceptable ones and ones with a field missing,
\* empty, blank, a number or naming no stored actor.
SomeMovieBodies ==
    [title : AnyValue, creationDate : {Str(<<>>), Numeral(1)},
     actorId : {Undefined, Num(1), Num(MaxActors + 1)}]

\* C18: GET and PUT on /actors/:id and /movies/:id with an id no stored
\* record of the collection has answer 404, whatever the body of the PUT,
\* and change nothing.
C18_UnknownIdIs404 ==
    /\ \A id \in {p \in AnyParamId : ~ActorStored(p)} :
         /\ GetActorHandler(id).status = 404
         /\ \A body \in SomeActorBodies :
            \A r \in {PutActorHandler(id, body)} :
                /\ r.status = 404
                /\ r.heap = heap
                /\ r.actors = actors
                /\ r.movies = movies
    /\ \A id \in {p \in AnyParamId : ~MovieStored(p)} :
         /\ GetMovieHandler(id).status = 404
         /\ \A body \in SomeMovieBodies :
            \A r \in {PutMovieHandler(id, body)} :
                /\ r.status = 404
                /\ r.heap = heap
                /\ r.actors = actors
                /\ r.movies = movies

\* An update of a movie that is not stored has been refused while other
\* movies are stored.
C18_Witness ==
    /\ req = "PUT /movies/:id"
    /\ res = [status |-> 404, body |-> "Movie not found"]
    /\ movies # <<>>

\* C19: DELETE /actors/:id with an id no stored actor has answers 404 and
\* changes nothing.
C19_DeleteUnknownActorIs404 ==
    \A id \in {p \in AnyParamId : ~ActorStored(p)} :
        \A r \in {DeleteActorHandler(id)} :
            /\ r.status = 404
            /\ r.heap = heap
            /\ r.actors = actors
            /\ r.movies = movies

\* A delete of an actor that is not stored has been answered with 404 while
\* a movie is stored.
C19_Witness ==
    /\ req = "DELETE /actors/:id"
    /\ res = [status |-> 404, body |-> "Actor not found"]
    /\ movies # <<>>

\* The statuses of a request that succeeded or was refused.
KnownStatuses == {200, 201, 204, 400, 404}

\* C20: every request to any of the ten routes is answered with one of
\* 200, 201, 204, 400 and 404, whatever its body holds.
C20_OnlyKnownStatuses ==
    /\ GetActorsHandler.status \in KnownStatuses
    /\ GetMoviesHandler.status \in KnownStatuses
    /\ \A id \in AnyParamId :
         /\ GetActorHandler(id).status \in KnownStatuses
         /\ GetMovieHandler(id).status \in KnownStatuses
         /\ DeleteActorHandler(id).status \in KnownStatuses
         /\ DeleteMovieHandler(id).status \in KnownStatuses
    /\ \A f \in AnyValue, l \in AnyValue, d \in AnyValue :
         LET body == [firstName |-> f, lastName |-> l, dateOfBirth |-> d]
         IN  /\ PostActorsHandler(body).status \in KnownStatuses
             /\ \A id \in AnyParamId :
                  PutActorHandler(id, body).status \in KnownStatuses
    /\ \A t \in AnyValue, c \in AnyValue, a \in AnyActorId \cup {Undefined} :
         LET body == [title |-> t, creationDate |-> c, actorId |-> a]
         IN  /\ PostMoviesHandler(body).status \in KnownStatuses
             /\ \A id \in AnyParamId :
                  PutMovieHandler(id, body).status \in KnownStatuses

\* An actor body with acceptable names and the given date of birth.
BornAt(d) ==
    [firstName |-> Str(<<"T">>), lastName |-> Str(<<"H">>), dateOfBirth |-> d]

\* C21: a dateOfBirth equal to the clock's reading is not future: POST
\* /actors and PUT /actors/:id accept it and refuse the next instant.
C21_NowIsNotFuture ==
    /\ ~isFutureDate(Numeral(now))
    /\ isFutureDate(Numeral(now + 1))
    /\ \A r \in {PostActorsHandler(BornAt(Numeral(now)))} :
         /\ r.status = 201
         /\ r.heap[r.actors[Len(r.actors)]].dateOfBirth = Numeral(now)
    /\ PostActorsHandler(BornAt(Numeral(now + 1))).status = 400
    /\ \A id \in {p \in ParamIds : ActorStored(p)} :
         /\ PutActorHandler(id, BornAt(Numeral(now))).status = 200
         /\ PutActorHandler(id, BornAt(Numeral(now + 1))).status = 400

\* An actor born at the clock's present reading has been created.
C21_Witness ==
    /\ req = "POST /actors"
    /\ res.status = 201
    /\ heap[actors[Len(actors)]].dateOfBirth = Numeral(now)

\* C22: no stored movie has a title that is empty or only spaces.
C22_NoBlankTitleStored ==
    \A i \in 1..Len(movies) : ~BlankName(movies[i].title)

\* C28: every body POST /actors accepts with 201 is accepted with 200 by
\* PUT /actors/:id on a stored actor at the same reading of the clock.
C28_PutAcceptsWhatPostAccepts ==
    \A id \in {p \in ParamIds : ActorStored(p)} :
        \A f \in AnyValue, l \in AnyValue, d \in AnyBirthDate :
            LET body == [firstName |-> f, lastName |-> l, dateOfBirth |-> d]
            IN  PostActorsHandler(body).status = 201
                => PutActorHandler(id, body).status = 200

\* C29: every stored actor's dateOfBirth denotes a date not later than the
\* clock's reading.
C29_StoredBirthNotFuture ==
    \A i \in 1..Len(actors) :
        LET date == NewDate(heap[actors[i]].dateOfBirth)
        IN  ~date.nan /\ date.val <= now

\* Two elements of `as` are actors with the same id in heap h.
SharedActorId(h, as) ==
    \E i, j \in 1..Len(as) : i # j /\ h[as[i]].id = h[as[j]].id

\* C23: ids given by the current length plus one repeat after deletions:
\* whenever a stored actor has the id that the length of `actors` plus one
\* is, an accepted POST /actors leaves two stored actors with that id, and
\* POST /actors and DELETE /actors/:id alone lead to such a state.
C23_LengthPlusOneRepeatsId ==
    (\E i \in 1..Len(actors) : heap[actors[i]].id = Len(actors) + 1)
    => \A r \in {PostActorsHandler(BornAt(Numeral(1)))} :
           /\ r.status = 201
           /\ SharedActorId(r.heap, r.actors)

\* A create has left two stored actors with the same id.
C23_Witness ==
    /\ req = "POST /actors"
    /\ res.status = 201
    /\ SharedActorId(heap, actors)

\* Values a body may give title and creationDate when it updates a movie
\* in part: absent, empty, blank, a string, a number.
AnyUpdate == {Undefined, Str(<<>>), Str(<<" ">>), Str(<<"M">>), Num(7)}

C25_RefusedRequestChangesNothing ==
    [][res'.status \in {400, 404}
        => heap' = heap /\ actors' = actors /\ movies' = movies]_vars

\* The seeded build has refused a movie update for an actor that is not
\* stored.
C25_Witness ==
    /\ variant = "partial"
    /\ req = "PUT /movies/:id"
    /\ res = [status |-> 404, body |-> "Actor not found"]
    /\ movies # <<>>

\* An acceptable actor body that differs from the bodies BornAt gives.
Renamed ==
    [firstName |-> Str(<<"A">>), lastName |-> Str(<<"H">>),
     dateOfBirth |-> Numeral(1)]

\* C26: when two stored actors share an id, GET, PUT and DELETE
\* /actors/:id and the actorId of POST /movies and PUT /movies/:id act on
\* the one that comes first in `actors` (the one inserted earliest); the
\* later one is held by no movie, not modified and not removed.
C26_EarliestDuplicateActsForId ==
    \A i, j \in 1..Len(actors) :
        (i < j /\ heap[actors[i]].id = heap[actors[j]].id)
        => LET id == Numeral(heap[actors[i]].id)
               actorId == Num(heap[actors[i]].id)
           IN  /\ findActorById(id) = actors[i]
               /\ \A k \in 1..Len(movies) : movies[k].actor # actors[j]
               /\ \A r \in {PutActorHandler(id, Renamed)} :
                    /\ r.status = 200
                    /\ r.heap[actors[i]].firstName = Renamed.firstName
                    /\ r.heap[actors[j]] = heap[actors[j]]
               /\ \A r \in {DeleteActorHandler(id)} :
                    \/ r.status = 400 /\ r.actors = actors
                    \/ /\ r.status = 204
                       /\ Len(r.actors) = Len(actors) - 1
                       /\ r.heap[r.actors[j - 1]] = heap[actors[j]]
                       /\ \A k \in 1..(i - 1) :
                            r.heap[r.actors[k]] = heap[actors[k]]
               /\ \A r \in {PostMoviesHandler([title |-> Str(<<"M">>),
                                               creationDate |-> Numeral(1),
                                               actorId |-> actorId])} :
                    /\ r.status = 201
                    /\ r.movies[Len(r.movies)].actor = actors[i]
               /\ \A p \in {q \in ParamIds : MovieStored(q)} :
                  \A r \in {PutMovieHandler(p, [title |-> Str(<<"M">>),
                                                creationDate |-> Numeral(1),
                                                actorId |-> actorId])} :
                    /\ r.status = 200
                    /\ r.movies[MovieIndex(p)].actor = actors[i]

\* One of two stored actors with the same id has been updated.
C26_Witness ==
    /\ req = "PUT /actors/:id"
    /\ res.status = 200
    /\ SharedActorId(heap, actors)
    /\ heap[actors[1]].firstName # heap[actors[2]].firstName

\* C27: DELETE /actors/:id for a stored actor is refused with 400 while
\* some stored movie holds an actor with its id and is answered with 204
\* otherwise; the DELETE /movies/:id or PUT /movies/:id that takes the last
\* such movie away leaves the actor stored, so that the first DELETE
\* /actors/:id after it is answered with 204.
C27_DeleteFollowsAssignment ==
    /\ [](\A id \in {p \in ParamIds : ActorStored(p)} :
            DeleteActorHandler(id).status =
                IF MovieWithActor(ParseInt(id).val) THEN 400 ELSE 204)
    /\ [][(/\ req' \in {"DELETE /movies/:id", "PUT /movies/:id"}
           /\ res'.status \in {200, 204})
          => \A n \in 1..(MaxActors + 1) :
               (MovieWithActor(n) /\ ~MovieWithActor(n)')
               => /\ DeleteActorHandler(Numeral(n)).status = 400
                  /\ n \in ActorIdsStored'
                  /\ actors' = actors]_vars

\* An actor has been deleted after a movie had been, another movie
\* remaining.
C27_Witness ==
    /\ req = "DELETE /actors/:id"
    /\ res.status = 204
    /\ movies # <<>>
    /\ movies[1].id > 1

====
